---- MODULE Spec2Model ----
(***************************************************************************)
(* Model of vizmap's frame cache and prefetch engine (layer.py), its       *)
(* debounced buffer_frames, and the selection masks (selection.py).        *)
(*                                                                         *)
(* Threads of one layer:                                                   *)
(*   - the caller's thread runs update_frame;                              *)
(*   - the debounce timer's thread runs the body of buffer_frames;         *)
(*   - the pool's result thread runs the cache_frame callbacks.            *)
(* A rendered artifact is modelled by the render request that produced it  *)
(* (slice index and bounding-box variant), encoded as a positive integer,  *)
(* so that 0 stays the cache's "absent" sentinel as in the code.           *)
(***************************************************************************)
EXTENDS Integers, Sequences, FiniteSets, TLC

\* ------------------------------------------------------------------ bounds
\* Number of time steps of the dataset, len(self.data).
NumFrames == 3

\* Number of rows and of columns of the grid, len(lat) and len(long).
GridSize == 3

\* ------------------------------------------------------- program constants
\* layer.py:123   if i % 10 == 0
CheckpointEvery == 10
\* layer.py:124   self.buffer_frames(self.frame+1, 40)
CheckpointLookahead == 40
\* layer.py:133   self.buffer_frames(i+1, 50)
MissLookahead == 50
\* layer.py:67    self.buffer_frames(self.frame+1, 50)
InitLookahead == 50
\* layer.py:49    self.cache = [0 for i in range(len(self.data))]
Absent == 0

Slots == 0..(NumFrames - 1)

\* The three layers of layer.py: RasterLayer, WindLayer(method='geojson'),
\* WindLayer(method='quiver').
Kinds == {"raster", "geojson", "quiver"}

\* Arguments update_frame is called with: every valid index, the negative
\* index Python wraps to the last frame, and the first index out of range.
FrameArgs == (0 - 1)..NumFrames

\* Arguments of a direct buffer_frames call by the application.
DirectStarts == 0..(NumFrames - 1)
DirectCounts == 1..(NumFrames - 1)

VARIABLES
    kind,       \* which layer this is
    cache,      \* self.cache
    frame,      \* self.frame
    url,        \* self.layer_obj.url / self.layer_obj.data
    pc,         \* the caller's thread: "idle", or "computing" inside update_frame's miss branch
    pending,    \* debounce: the arguments waiting for the timer, <<>> when none
    disp,       \* the running buffer_frames body <<start, n, finish, i, results>>, <<>> when
                \* none; results (read under finish only) is kept under finish only
    tasks,      \* tasks submitted to a pool and not completed yet: <<frame, method, slice, bbox>>
    \* What the last step did (each is at rest after any other step):
    outcome,    \* an update_frame step: "hit", "computing", "miss" or the exception raised; else "none"
    again,      \* a hit on a frame an earlier update_frame call has displayed; else FALSE
    lastSlot,   \* <<who, slot>> of a cache assignment ("init", "sync", "callback") or of a
                \* task's failure ("error"); else <<>>
    lastCalled, \* the arguments of the buffer_frames call made; else <<>>
    lastDropped,\* the pending arguments that call superseded; else <<>>
    lastEnd,    \* how the body of buffer_frames ended: "returned" or the exception; else "none"
    \* History:
    shown,      \* per slot, the artifact the first update_frame that returned for it displayed
    done,       \* the slots a prefetch task completed for
    \* Selection (get_selection and the functions of selection.py):
    selection,  \* the argument <<listed, shapes>>: a list of shapes, or one shape passed bare
    rectOut,    \* what find_selection_rectangle gave for the shape; <<>> before it ran
    polyOut,    \* what find_selection_polygon gave for the shape; <<>> before it ran
    findOut,    \* what find_selection gave for the shape; <<>> before it ran
    selOut      \* what get_selection gave for the argument; <<>> before it ran

layerVars == <<kind, cache, frame, url, pc, pending, disp, tasks, outcome, again,
               lastSlot, lastCalled, lastDropped, lastEnd, shown, done>>

selVars == <<selection, rectOut, polyOut, findOut, selOut>>

vars == <<layerVars, selVars>>

\* --------------------------------------------------------- Python indexing
Min(a, b) == IF a < b THEN a ELSE b
Max(a, b) == IF a > b THEN a ELSE b

\* self.cache[i] raises IndexError outside -N..N-1.
ValidIndex(i) == (0 - NumFrames) <= i /\ i < NumFrames

\* The slot self.cache[i] names: negative indices count from the end.
Slot(i) == IF i < 0 THEN i + NumFrames ELSE i

\* A slice bound as Python normalises it: negative bounds count from the
\* end, and the result is clipped to 0..N.
SliceBound(x) == IF x < 0 THEN Max(x + NumFrames, 0) ELSE Min(x, NumFrames)

\* self.data[start:start+n]: the sequence of the slice indices it holds.
DataSlice(start, n) ==
    LET lo == SliceBound(start)
        hi == SliceBound(start + n)
    IN  [j \in 1..Max(hi - lo, 0) |-> lo + j - 1]

\* ------------------------------------------------------------ reprojection
\* The artifact of a render request, as a positive integer that names the
\* request: the slice rendered and the bounding box it was rendered in.
process_frame_raster(slice, bbox) ==
    2 * slice + (IF bbox = "edge" THEN 2 ELSE 1)

process_frame_quiver(slice, bbox) ==
    2 * slice + (IF bbox = "edge" THEN 2 ELSE 1)

\* The arrows are computed in the dataset's own coordinates: no bounding box.
process_frame_geojson(slice) == 2 * slice + 1

process_frame(method, slice, bbox) ==
    CASE method = "raster"  -> process_frame_raster(slice, bbox)
      [] method = "geojson" -> process_frame_geojson(slice)
      [] method = "quiver"  -> process_frame_quiver(slice, bbox)

\* WindLayer.get_frame: both methods read slice `i`; quiver renders in
\* self.bounds.
get_frame(method, i) == process_frame(method, Slot(i), "true")

\* The frame the constructor renders: RasterLayer.create_layer renders in
\* self.bounds, WindLayer.create_layer calls get_frame.
InitialFrame(k, i) ==
    IF k = "raster" THEN process_frame("raster", Slot(i), "true")
    ELSE get_frame(k, i)

\* The frame update_frame computes on a miss: RasterLayer renders in
\* self.bounds_img, WindLayer calls get_frame.
MissFrame(k, i) ==
    IF k = "raster" THEN process_frame("raster", Slot(i), "edge")
    ELSE get_frame(k, i)

\* Mutant of StoreFrame: the computed frame is displayed but not stored.
StoreFrame_forget(c, i, img) == c

\* update_frame's miss branch: self.cache[i] = img
StoreFrame(c, i, img) == [c EXCEPT ![Slot(i)] = img]

\* Mutant of TaskArgs: the task renders in self.bounds, as the constructor does.
TaskArgs_true_bounds(start, i, data) == <<start + i, "raster", data[i + 1], "true">>

\* The arguments of the task buffer_frames submits for its index i, given the
\* slice `data` it took: (start+i, 'raster', data[i], self.bounds_img, ...).
TaskArgs(start, i, data) == <<start + i, "raster", data[i + 1], "edge">>

\* calc_frame(frame, method, *args): returns (img, frame).
calc_frame(t) == <<process_frame(t[2], t[3], t[4]), t[1]>>

\* Mutant of cache_frame: the result is stored at a fixed index.
cache_frame_wrong_slot(c, result) == [c EXCEPT ![0] = result[1]]

\* buffer_frames.cache_frame(result): self.cache[result[1]] = result[0]
cache_frame(c, result) == [c EXCEPT ![Slot(result[2])] = result[1]]

\* Mutant of task_error: the callback also runs for a failed task and stores
\* what it is given.
task_error_poison(c, t) == [c EXCEPT ![Slot(t[1])] = 0 - 1]

\* apply_async is given no error_callback: a task that raises runs no
\* callback and leaves the cache as it is.
task_error(c, t) == c

\* Mutant of IsPresent: no entry is taken for present, nothing is skipped.
IsPresent_never(c, i) == FALSE

\* buffer_frames: if self.cache[start+i] != 0: continue
IsPresent(c, i) == c[Slot(i)] # Absent

\* Mutant of IsCheckpoint: the checkpoints are the frames after the tenths.
IsCheckpoint_off(i) == i % CheckpointEvery = 1

\* if i % 10 == 0
IsCheckpoint(i) == i % CheckpointEvery = 0

\* ---------------------------------------------------------------- debounce
\* Mutant of debounce: the first call of a burst is kept, later ones dropped.
debounce_keep_first(waiting, args) == IF waiting = <<>> THEN args ELSE waiting

\* The arguments pending after a call: the latest call replaces what waited.
debounce(waiting, args) == args

\* What is left pending once the timer has run the pending call.
debounce_fired(waiting) == <<>>

\* A call of the debounced buffer_frames: it only restarts the timer. A call
\* made while another is pending arrives within the interval of that one.
Call(args) ==
    /\ pending' = debounce(pending, args)
    /\ lastCalled' = args
    /\ lastDropped' = pending

NoCall ==
    /\ lastCalled' = <<>>
    /\ lastDropped' = <<>>
    /\ UNCHANGED pending

\* ------------------------------------------------------------------- state
\* The layer after its constructor: every entry absent but the first frame
\* displayed, and the first prefetch requested (create_layer).
LayerInit ==
    /\ kind \in Kinds
    /\ frame \in Slots
    /\ cache = [s \in Slots |-> IF s = frame THEN InitialFrame(kind, frame) ELSE Absent]
    /\ url = InitialFrame(kind, frame)
    /\ pc = "idle"
    /\ pending = debounce(<<>>, <<frame + 1, InitLookahead, FALSE>>)
    /\ disp = <<>>
    /\ tasks = {}
    /\ outcome = "none"
    /\ again = FALSE
    /\ lastSlot = <<"init", frame>>
    /\ lastCalled = <<frame + 1, InitLookahead, FALSE>>
    /\ lastEnd = "none"
    /\ shown = [s \in Slots |-> Absent]
    /\ done = {}
    /\ lastDropped = <<>>

\* No selection has been asked of the layer.
Init ==
    /\ LayerInit
    /\ selection = <<FALSE, <<>>>>
    /\ rectOut = <<>>
    /\ polyOut = <<>>
    /\ findOut = <<>>
    /\ selOut = <<>>

\* update_frame displays `img` for slot s: the first artifact shown is kept.
Show(s, img) ==
    shown' = IF shown[s] = Absent THEN [shown EXCEPT ![s] = img] ELSE shown

\* ------------------------------------------------------------ update_frame
\* update_frame(i) up to its cache lookup: it sets self.frame, requests the
\* checkpoint prefetch, and then either raises IndexError on self.cache[i],
\* serves the stored artifact, or goes on to compute the frame.
UpdateFrameFrom(i) ==
    /\ pc = "idle"
    /\ frame' = i
    /\ IF IsCheckpoint(i)
       THEN Call(<<i + 1, CheckpointLookahead, FALSE>>)
       ELSE NoCall
    /\ IF ~ValidIndex(i)
       THEN /\ outcome' = "IndexError"
            /\ again' = FALSE
            /\ UNCHANGED <<pc, url, shown>>
       ELSE IF cache[Slot(i)] # Absent
       THEN /\ url' = cache[Slot(i)]
            /\ outcome' = "hit"
            /\ again' = (shown[Slot(i)] # Absent)
            /\ Show(Slot(i), cache[Slot(i)])
            /\ UNCHANGED pc
       ELSE /\ pc' = "computing"
            /\ outcome' = "computing"
            /\ again' = FALSE
            /\ UNCHANGED <<url, shown>>
    /\ lastSlot' = <<>>
    /\ lastEnd' = "none"
    /\ UNCHANGED <<kind, cache, disp, tasks, done>>
    /\ UNCHANGED selVars

\* update_frame(i) with an explicit index.
UpdateFrame == \E i \in FrameArgs : UpdateFrameFrom(i)

\* update_frame(): i = self.frame + 1.
UpdateFrameNext ==
    /\ frame + 1 \in FrameArgs
    /\ UpdateFrameFrom(frame + 1)

\* update_frame's miss branch once the frame is computed: display it, store
\* it, and request the prefetch of what follows.
UpdateFrameStore ==
    /\ pc = "computing"
    /\ LET img == MissFrame(kind, frame)
       IN  /\ url' = img
           /\ cache' = StoreFrame(cache, frame, img)
           /\ Show(Slot(frame), img)
    /\ lastSlot' = <<"sync", Slot(frame)>>
    /\ Call(<<frame + 1, MissLookahead, FALSE>>)
    /\ pc' = "idle"
    /\ outcome' = "miss"
    /\ again' = FALSE
    /\ lastEnd' = "none"
    /\ UNCHANGED <<kind, frame, disp, tasks, done>>
    /\ UNCHANGED selVars

\* update_frame's miss branch when process_frame raises: the exception
\* reaches the caller before anything is displayed or stored.
UpdateFrameRaise ==
    /\ pc = "computing"
    /\ pc' = "idle"
    /\ outcome' = "RenderError"
    /\ again' = FALSE
    /\ lastSlot' = <<>>
    /\ lastEnd' = "none"
    /\ NoCall
    /\ UNCHANGED <<kind, cache, frame, url, disp, tasks, shown, done>>
    /\ UNCHANGED selVars

\* The application calls buffer_frames itself, once the call made before has
\* had its interval (bursts of calls are those of update_frame).
BufferFramesCall ==
    /\ pc = "idle"
    /\ pending = <<>>
    /\ \E start \in DirectStarts, n \in DirectCounts, finish \in BOOLEAN :
           Call(<<start, n, finish>>)
    /\ outcome' = "none"
    /\ again' = FALSE
    /\ lastSlot' = <<>>
    /\ lastEnd' = "none"
    /\ UNCHANGED <<kind, cache, frame, url, pc, disp, tasks, shown, done>>
    /\ UNCHANGED selVars

\* ---------------------------------------------------------------- debounce
\* The interval has passed since the latest call: the timer's thread enters
\* the body of buffer_frames with the pending arguments.
Fire ==
    /\ pending # <<>>
    /\ disp = <<>>
    /\ disp' = <<pending[1], pending[2], pending[3], 0, {}>>
    /\ pending' = debounce_fired(pending)
    /\ outcome' = "none"
    /\ again' = FALSE
    /\ lastSlot' = <<>>
    /\ lastCalled' = <<>>
    /\ lastDropped' = <<>>
    /\ lastEnd' = "none"
    /\ UNCHANGED <<kind, cache, frame, url, pc, tasks, shown, done>>
    /\ UNCHANGED selVars

\* ----------------------------------------------------------- buffer_frames
\* How the body of buffer_frames ends: nothing runs after it.
EndDispatch(how) ==
    /\ disp' = <<>>
    /\ lastEnd' = how

\* One turn of the loop `for i in range(n)` of the running body:
\*   self.cache[start+i] may raise IndexError;
\*   a present entry is skipped;
\*   WindLayer.buffer_frames then reads the name `method`, which its scope
\*   does not define, and raises NameError;
\*   RasterLayer.buffer_frames reads data[i], which raises IndexError past the
\*   end of the slice taken, and submits the task.
DispatchStep ==
    /\ disp # <<>>
    /\ disp[4] < disp[2]
    /\ LET start == disp[1]
           n     == disp[2]
           i     == disp[4]
           data  == DataSlice(start, n)
       IN  IF ~ValidIndex(start + i)
           THEN /\ EndDispatch("IndexError")
                /\ UNCHANGED tasks
           ELSE IF IsPresent(cache, start + i)
           THEN /\ disp' = [disp EXCEPT ![4] = i + 1]
                /\ lastEnd' = "none"
                /\ UNCHANGED tasks
           ELSE IF kind # "raster"
           THEN /\ EndDispatch("NameError")
                /\ UNCHANGED tasks
           ELSE IF i + 1 > Len(data)
           THEN /\ EndDispatch("IndexError")
                /\ UNCHANGED tasks
           ELSE /\ tasks' = tasks \cup {TaskArgs(start, i, data)}
                /\ disp' = [disp EXCEPT ![4] = i + 1,
                                        ![5] = IF disp[3] THEN disp[5] \cup {start + i}
                                               ELSE disp[5]]
                /\ lastEnd' = "none"
    /\ outcome' = "none"
    /\ again' = FALSE
    /\ lastSlot' = <<>>
    /\ lastCalled' = <<>>
    /\ lastDropped' = <<>>
    /\ UNCHANGED <<kind, cache, frame, url, pc, pending, shown, done>>
    /\ UNCHANGED selVars

\* The loop is over: with finish the body waits for each result it holds
\* (r.wait()), then it returns.
DispatchReturn ==
    /\ disp # <<>>
    /\ disp[4] = disp[2]
    /\ disp[3] => \A t \in tasks : t[1] \notin disp[5]
    /\ EndDispatch("returned")
    /\ outcome' = "none"
    /\ again' = FALSE
    /\ lastSlot' = <<>>
    /\ lastCalled' = <<>>
    /\ lastDropped' = <<>>
    /\ UNCHANGED <<kind, cache, frame, url, pc, pending, tasks, shown,
                   done>>
    /\ UNCHANGED selVars

\* A worker finished calc_frame: the pool's result thread runs cache_frame.
TaskComplete ==
    /\ \E t \in tasks :
           /\ cache' = cache_frame(cache, calc_frame(t))
           /\ tasks' = tasks \ {t}
           /\ lastSlot' = <<"callback", Slot(t[1])>>
           /\ done' = done \cup {Slot(t[1])}
    /\ outcome' = "none"
    /\ again' = FALSE
    /\ lastCalled' = <<>>
    /\ lastDropped' = <<>>
    /\ lastEnd' = "none"
    /\ UNCHANGED <<kind, frame, url, pc, pending, disp, shown>>
    /\ UNCHANGED selVars

\* calc_frame raised in a worker: the exception stays in the task's result.
TaskFail ==
    /\ \E t \in tasks :
           /\ cache' = task_error(cache, t)
           /\ tasks' = tasks \ {t}
           /\ lastSlot' = <<"error", Slot(t[1])>>
    /\ outcome' = "none"
    /\ again' = FALSE
    /\ lastCalled' = <<>>
    /\ lastDropped' = <<>>
    /\ lastEnd' = "none"
    /\ UNCHANGED <<kind, frame, url, pc, pending, disp, shown, done>>
    /\ UNCHANGED selVars

\* The layer as the map's widgets drive it: the frame slider calls
\* update_frame, and buffer_frames is only called by the constructor and by
\* update_frame, with their lookaheads.
Next ==
    \/ UpdateFrame
    \/ UpdateFrameNext
    \/ UpdateFrameStore
    \/ UpdateFrameRaise
    \/ Fire
    \/ DispatchStep
    \/ TaskComplete
    \/ TaskFail

Spec == Init /\ [][Next]_vars

\* The layer as an application drives its prefetch: buffer_frames called
\* with ranges of its own choice while the layer shows the constructor's frame.
DirectNext ==
    \/ BufferFramesCall
    \/ Fire
    \/ DispatchStep
    \/ DispatchReturn
    \/ TaskComplete
    \/ TaskFail

DirectSpec == Init /\ [][DirectNext]_vars

\* --------------------------------------------------------------- selection
\* The grid's axes, self.coords = [lat, long]: the longitudes ascend and the
\* latitudes descend, two units apart, so that a corner of a shape can lie on
\* a cell, between two cells, and outside the grid.
long == [j \in 1..GridSize |-> 2 * (j - 1)]

lat == [j \in 1..GridSize |-> 2 * (GridSize - j)]

\* The cells <<y, x>> of a mask, indexed from 0 as in the code.
Cells == (0..(GridSize - 1)) \X (0..(GridSize - 1))

\* Coordinates a corner of a drawn shape takes: on the cells, between them,
\* and past the last one.
Coord == 0..(2 * GridSize - 1)

\* The sides <<low, high>> of a rectangle along one axis.
Sides == {r \in Coord \X Coord : r[1] < r[2]}

\* The ring the map's rectangle tool draws, [long, lat] per vertex, closed.
DrawnRing(xs, ys) ==
    <<<<xs[1], ys[1]>>, <<xs[1], ys[2]>>, <<xs[2], ys[2]>>, <<xs[2], ys[1]>>,
      <<xs[1], ys[1]>>>>

\* The same rectangle with its vertices in the other direction.
TurnedRing(xs, ys) ==
    <<<<xs[1], ys[1]>>, <<xs[2], ys[1]>>, <<xs[2], ys[2]>>, <<xs[1], ys[2]>>,
      <<xs[1], ys[1]>>>>

\* Selections, <<geometry type, coordinates[0]>>: the rectangles as drawn, those
\* of them whose sides all lie between the cells, and the rectangles as drawn
\* or turned.
Rectangles == {<<"Polygon", DrawnRing(xs, ys)>> : xs \in Sides, ys \in Sides}

Between == {r \in Sides : r[1] % 2 = 1 /\ r[2] % 2 = 1}

RectanglesBetween == {<<"Polygon", DrawnRing(xs, ys)>> : xs \in Between, ys \in Between}

Shapes == Rectangles \cup {<<"Polygon", TurnedRing(xs, ys)>> : xs \in Sides, ys \in Sides}

\* Lines drawn with the map's polyline tool: a geometry type find_selection
\* has no branch for.
Lines == {<<"LineString", DrawnRing(xs, ys)>> : xs \in Between, ys \in Between}

\* ---- selection.py
\* np.searchsorted(a, v) on an ascending array: the number of elements
\* below v.
searchsorted(a, v) == Cardinality({j \in DOMAIN a : a[j] < v})

\* np.flip(a)
flip(a) == [j \in DOMAIN a |-> a[Len(a) + 1 - j]]

\* a[k] of a numpy array: a negative index counts from the end. (An index
\* past the end raises IndexError: IndexInRange.)
IndexInRange(k, n) == (0 - n) <= k /\ k < n

Wrap(k, n) == IF k < 0 THEN k + n ELSE k

\* The indices a slice lo:hi takes on an axis of length n.
SliceIndices(lo, hi, n) ==
    LET from == IF lo < 0 THEN Max(lo + n, 0) ELSE Min(lo, n)
        to   == IF hi < 0 THEN Max(hi + n, 0) ELSE Min(hi, n)
    IN  {k \in 0..(n - 1) : from <= k /\ k < to}

SetMin(S) == CHOOSE x \in S : \A y \in S : x <= y

SetMax(S) == CHOOSE x \in S : \A y \in S : x >= y

\* get_poly_bounds(poly_points): <<xmin, xmax, ymin, ymax>>
get_poly_bounds(poly_points) ==
    LET xs == {poly_points[k][1] : k \in DOMAIN poly_points}
        ys == {poly_points[k][2] : k \in DOMAIN poly_points}
    IN  <<SetMin(xs), SetMax(xs), SetMin(ys), SetMax(ys)>>

\* The index range both find_selection_rectangle and find_selection_polygon
\* narrow the search to: <<x_lo, x_hi, y_lo, y_hi>>.
index_range(coords) ==
    LET b == get_poly_bounds(coords)
    IN  <<searchsorted(long, b[1]) - 1,
          searchsorted(long, b[2]) + 1,
          Len(lat) - searchsorted(flip(lat), b[4]) - 1,
          Len(lat) - searchsorted(flip(lat), b[3]) + 1>>

\* is_rectangle(poly_points)
is_rectangle(poly_points) ==
    /\ Len(poly_points) = 5
    /\ poly_points[1][1] = poly_points[2][1]
    /\ poly_points[1][1] = poly_points[5][1]
    /\ poly_points[1][2] = poly_points[4][2]
    /\ poly_points[2][2] = poly_points[3][2]
    /\ poly_points[3][1] = poly_points[4][1]

\* A function's result: <<"ok", mask>>, mask[<<y, x>>] true for a cell that
\* is masked out; an exception leaves no mask.
NoMask == [c \in Cells |-> TRUE]

Raised(exception) == <<exception, NoMask>>

\* find_selection_rectangle(coords, lat, long):
\*   mask[y_lo:y_hi, x_lo:x_hi] = False
find_selection_rectangle(coords) ==
    LET r    == index_range(coords)
        cols == SliceIndices(r[1], r[2], Len(long))
        rows == SliceIndices(r[3], r[4], Len(lat))
    IN  <<"ok", [c \in Cells |-> ~(c[1] \in rows /\ c[2] \in cols)]>>

\* matplotlib's Path.contains_point: the ray to +x from the point t crosses
\* the edge from p0 to p1.
Crosses(p0, p1, t) ==
    LET yflag0 == p0[2] >= t[2]
        yflag1 == p1[2] >= t[2]
    IN  /\ yflag0 # yflag1
        /\ ((p1[2] - t[2]) * (p0[1] - p1[1]) >= (p1[1] - t[1]) * (p0[2] - p1[2]))
               = yflag1

\* poly.contains_point(t): t is inside when the ray crosses an odd number of
\* the path's edges, the closing edge included.
contains_point(coords, t) ==
    LET n       == Len(coords)
        crossed == {k \in 1..n : Crosses(coords[k], coords[(k % n) + 1], t)}
    IN  Cardinality(crossed) % 2 = 1

\* find_selection_polygon(coords, lat, long): the loops visit range(y_lo, y_hi)
\* by range(x_lo, x_hi); long[x] or lat[y] past the end raises IndexError, and
\* a negative index names a cell counted from the end.
find_selection_polygon(coords) ==
    LET r       == index_range(coords)
        visited == (r[3]..(r[4] - 1)) \X (r[1]..(r[2] - 1))
        at(v)   == <<Wrap(v[1], Len(lat)), Wrap(v[2], Len(long))>>
        point(v) == <<long[at(v)[2] + 1], lat[at(v)[1] + 1]>>
    IN  IF \E v \in visited : ~IndexInRange(v[1], Len(lat)) \/ ~IndexInRange(v[2], Len(long))
        THEN Raised("IndexError")
        ELSE <<"ok", [c \in Cells |->
                        ~\E v \in visited : at(v) = c /\ contains_point(coords, point(v))]>>

\* What a function gives that ends without a return statement: None.
ReturnsNone == <<"None", NoMask>>

\* find_selection(selection, lat, long): a Polygon goes to one of the two
\* paths; for a type other than Point and Polygon no branch is taken and the
\* function returns None. (No Point selection is drawn here.)
find_selection(shape) ==
    IF shape[1] = "Polygon"
    THEN IF is_rectangle(shape[2])
         THEN find_selection_rectangle(shape[2])
         ELSE find_selection_polygon(shape[2])
    ELSE ReturnsNone

\* mask & mask
MaskAnd(m1, m2) == [c \in Cells |-> m1[c] /\ m2[c]]

\* mask & find_selection(...) on what the two calls gave: `&` with None
\* raises TypeError.
AndOf(mask, more) ==
    IF mask[1] = "None" \/ more[1] = "None" THEN Raised("TypeError")
    ELSE <<"ok", MaskAnd(mask[2], more[2])>>

\* np.ma.array(data, mask=None): numpy reads None as False, nothing is masked.
MaskArg(m) == IF m[1] = "None" THEN <<"ok", [c \in Cells |-> FALSE]>> ELSE m

\* The mask RasterLayer.get_selection has after the first k shapes of a list;
\* an exception of find_selection ends the call.
RECURSIVE MaskOfFirst(_, _)
MaskOfFirst(shapes, k) ==
    IF k = 1 THEN find_selection(shapes[1])
    ELSE LET mask == MaskOfFirst(shapes, k - 1)
             more == find_selection(shapes[k])
         IN  IF mask[1] \notin {"ok", "None"} THEN mask
             ELSE IF more[1] \notin {"ok", "None"} THEN more
             ELSE AndOf(mask, more)

\* RasterLayer.get_selection(selection): <<"ok", slice, mask>> for
\* np.ma.array(self.data[self.frame], mask=mask), or the exception.
get_selection(sel, f) ==
    LET m == MaskArg(IF sel[1] THEN MaskOfFirst(sel[2], Len(sel[2]))
                     ELSE find_selection(sel[2][1]))
    IN  <<m[1], Slot(f), m[2]>>

\* A raster layer constructed on its first frame, and the selection the
\* map's draw control hands over: one shape, bare or in a list, a list of
\* two drawn rectangles, or a list of two shapes with a line in it.
SelInit ==
    /\ LayerInit
    /\ kind = "raster"
    /\ frame = 0
    /\ \/ \E listed \in BOOLEAN, s \in Shapes \cup Lines : selection = <<listed, <<s>>>>
       \/ \E s \in Rectangles, t \in RectanglesBetween : selection = <<TRUE, <<s, t>>>>
       \/ \E s \in Lines, t \in RectanglesBetween \cup Lines :
              selection \in {<<TRUE, <<s, t>>>>, <<TRUE, <<t, s>>>>}
    /\ rectOut = <<>>
    /\ polyOut = <<>>
    /\ findOut = <<>>
    /\ selOut = <<>>

\* find_selection_rectangle applied to the shape.
FindSelectionRectangle ==
    /\ Len(selection[2]) = 1
    /\ selection[2][1][1] = "Polygon"
    /\ rectOut = <<>>
    /\ rectOut' = find_selection_rectangle(selection[2][1][2])
    /\ UNCHANGED <<selection, polyOut, findOut, selOut>>
    /\ UNCHANGED layerVars

\* find_selection_polygon applied to the shape.
FindSelectionPolygon ==
    /\ Len(selection[2]) = 1
    /\ selection[2][1][1] = "Polygon"
    /\ polyOut = <<>>
    /\ polyOut' = find_selection_polygon(selection[2][1][2])
    /\ UNCHANGED <<selection, rectOut, findOut, selOut>>
    /\ UNCHANGED layerVars

\* find_selection applied to the shape.
FindSelection ==
    /\ Len(selection[2]) = 1
    /\ findOut = <<>>
    /\ findOut' = find_selection(selection[2][1])
    /\ UNCHANGED <<selection, rectOut, polyOut, selOut>>
    /\ UNCHANGED layerVars

\* layer.get_selection(selection)
GetSelection ==
    /\ selOut = <<>>
    /\ selOut' = get_selection(selection, frame)
    /\ UNCHANGED <<selection, rectOut, polyOut, findOut>>
    /\ UNCHANGED layerVars

SelNext ==
    \/ FindSelectionRectangle
    \/ FindSelectionPolygon
    \/ FindSelection
    \/ GetSelection

SelSpec == SelInit /\ [][SelNext]_vars

\* ------------------------------------------------------------------ claims
\* A step's cache assignment went to slot s.
WroteTo(s) == lastSlot \in {<<"sync", s>>, <<"callback", s>>}

\* C1 (as claimed): once a cache entry holds an artifact, no step changes its
\* value and no step assigns it again, be it update_frame's synchronous store
\* or a prefetch completion callback.
C1_WriteOnce ==
    [][\A s \in Slots :
          cache[s] # Absent => (cache'[s] = cache[s] /\ ~WroteTo(s)')]_vars

\* C2: once update_frame has returned for a frame, its cache entry is
\* present; an update_frame call for such a frame never goes on to compute
\* it, and a hit displays the stored artifact.
C2_HitAfterReturn ==
    /\ \A s \in Slots : shown[s] # Absent => cache[s] # Absent
    /\ pc = "computing" => shown[Slot(frame)] = Absent
    /\ outcome = "hit" => url = cache[Slot(frame)]

\* C2's case: a hit on a frame that an earlier update_frame call computed
\* and stored itself (no prefetch task completed for it).
C2_Witness ==
    /\ kind = "raster"
    /\ outcome = "hit"
    /\ again
    /\ Slot(frame) \notin done
    /\ cache[Slot(frame)] = process_frame("raster", Slot(frame), "edge")

\* C3: whatever update_frame displays for a frame is the artifact the first
\* update_frame call on that frame displayed.
C3_SameArtifact ==
    outcome \in {"hit", "miss"} => url = shown[Slot(frame)]

\* C3's case: a second call on a frame, which a prefetch completion has
\* written, after another frame was prefetched and displayed.
C3_Witness ==
    /\ kind = "raster"
    /\ outcome = "hit"
    /\ again
    /\ Slot(frame) \in done
    /\ \E s \in Slots \ {Slot(frame)} : s \in done /\ shown[s] # Absent

\* C4 (as claimed): every update_frame call that returns has called
\* buffer_frames in the step that ended it.
C4_AlwaysPrefetch ==
    outcome \in {"hit", "miss"} => lastCalled # <<>>

\* C4 (amended): update_frame calls buffer_frames(i+1, 40) before the lookup
\* exactly when i % 10 = 0, and buffer_frames(i+1, 50) exactly when it has
\* computed and stored a missing frame; a hit off the tenths calls nothing.
C4_PrefetchWhen ==
    /\ outcome \in {"hit", "computing", "IndexError"} =>
           lastCalled = IF frame % CheckpointEvery = 0
                        THEN <<frame + 1, CheckpointLookahead, FALSE>>
                        ELSE <<>>
    /\ outcome = "miss" => lastCalled = <<frame + 1, MissLookahead, FALSE>>
    /\ outcome = "RenderError" => lastCalled = <<>>

\* C4's case: a cache hit on a frame off the tenths, with no prefetch call.
C4_Witness ==
    /\ outcome = "hit"
    /\ frame % CheckpointEvery # 0
    /\ lastCalled = <<>>

\* C5: a call made while another is pending replaces its arguments and
\* starts nothing; the body of buffer_frames starts only from a pending
\* call, with its arguments, and leaves nothing pending, so that a burst
\* runs once, with the arguments of its last call.
C5_Coalescing ==
    [][/\ lastCalled' # <<>> =>
              /\ pending' = lastCalled'
              /\ disp' = disp
              /\ tasks' = tasks
       /\ (disp = <<>> /\ disp' # <<>>) =>
              /\ pending # <<>>
              /\ <<disp'[1], disp'[2], disp'[3]>> = pending
              /\ pending' = <<>>
              /\ tasks' = tasks
              /\ cache' = cache]_vars

\* C5's case: a call has just superseded a pending call with other arguments.
C5_Witness ==
    /\ lastCalled # <<>>
    /\ lastDropped # <<>>
    /\ lastDropped # lastCalled
    /\ pending = lastCalled

\* C6: the entry of every frame a prefetch task completed for is present,
\* in whatever order the callbacks ran.
C6_NoLostWrites == \A s \in done : cache[s] # Absent

\* C6's case: the tasks of two frames have completed, the lower frame last.
C6_Witness ==
    /\ tasks = {}
    /\ \E s \in done, r \in done :
           /\ s < r
           /\ lastSlot = <<"callback", s>>

\* C7: a failing task changes no cache entry (so an absent entry stays
\* absent), raises nothing in the caller's thread or in the body of
\* buffer_frames, and leaves every other task in flight.
C7_FailureIsolated ==
    [][(lastSlot' # <<>> /\ lastSlot'[1] = "error") =>
           /\ cache' = cache
           /\ pc' = pc
           /\ outcome' = "none"
           /\ disp' = disp
           /\ lastEnd' = "none"
           /\ tasks' \subseteq tasks
           /\ Cardinality(tasks \ tasks') = 1]_vars

\* C7's case: a task has failed, its frame is absent, another is in flight.
C7_Witness ==
    /\ lastSlot # <<>>
    /\ lastSlot[1] = "error"
    /\ cache[lastSlot[2]] = Absent
    /\ tasks # {}

\* C8 (as claimed): update_frame rejects an index outside 0..N-1 and leaves
\* the layer as it was: self.frame is always a valid frame index, and a call
\* that raised IndexError has requested no prefetch.
C8_IndexValidated ==
    /\ frame \in Slots
    /\ outcome = "IndexError" => lastCalled = <<>>

\* The masks find_selection gives for the shapes of the list, one by one.
EachMask == [k \in DOMAIN selection[2] |-> find_selection(selection[2][k])]

\* C9 (as claimed): for a list of two or more shapes, the mask get_selection
\* returns is the cell-wise OR of the shapes' exclusion masks: a cell is
\* included only if every shape includes it.
C9_MaskIsOr ==
    (/\ selOut # <<>>
     /\ selection[1]
     /\ Len(selection[2]) >= 2
     /\ \A k \in DOMAIN selection[2] : EachMask[k][1] = "ok") =>
        /\ selOut[1] = "ok"
        /\ \A c \in Cells :
               selOut[3][c] = (\E k \in DOMAIN selection[2] : EachMask[k][2][c])

\* C10 (as claimed): for a rectangle given as a closed 5-vertex ring,
\* find_selection_rectangle and find_selection_polygon give the same result.
C10_SameMask ==
    (rectOut # <<>> /\ polyOut # <<>>) => rectOut = polyOut

\* The cell c lies within the coordinate bounding box of the ring.
InBounds(coords, c) ==
    LET b == get_poly_bounds(coords)
    IN  /\ b[1] <= long[c[2] + 1] /\ long[c[2] + 1] <= b[2]
        /\ b[3] <= lat[c[1] + 1] /\ lat[c[1] + 1] <= b[4]

\* C11 (as claimed): find_selection_rectangle includes (mask false) every
\* cell whose longitude and latitude lie within the rectangle's bounding box,
\* also for a rectangle that reaches or passes the grid's first or last row
\* or column.
C11_NoCellLost ==
    rectOut # <<>> =>
        /\ rectOut[1] = "ok"
        /\ \A c \in Cells : InBounds(selection[2][1][2], c) => ~rectOut[2][c]

\* The geometry types find_selection has a branch for.
KnownTypes == {"Point", "Polygon"}

\* C12 (as claimed): for a shape whose geometry type is neither Point nor
\* Polygon, find_selection ends with an exception, and so does get_selection
\* given the shape alone or in a list: neither returns anything for it.
C12_UnknownTypeRaises ==
    /\ (findOut # <<>> /\ selection[2][1][1] \notin KnownTypes) =>
           findOut[1] \notin {"ok", "None"}
    /\ (selOut # <<>> /\ \E k \in DOMAIN selection[2] : selection[2][k][1] \notin KnownTypes) =>
           selOut[1] # "ok"

\* C13 (as claimed): when a buffer_frames call made with finish=True has
\* returned to its caller, the dispatch it asked for has run and every task
\* submitted for its range has completed. (With finish=False the call
\* returns without waiting, as claimed.)
C13_FinishBlocks ==
    (lastCalled # <<>> /\ lastCalled[3]) =>
        /\ pending = <<>>
        /\ disp = <<>>
        /\ \A t \in tasks :
               t[1] \notin lastCalled[1]..(lastCalled[1] + lastCalled[2] - 1)

\* The running body of RasterLayer.buffer_frames was given a range inside
\* the cache: 0 <= start and start + n <= N.
InsideDispatch ==
    /\ kind = "raster"
    /\ disp # <<>>
    /\ 0 <= disp[1]
    /\ disp[1] + disp[2] <= NumFrames

\* The reprojection task of frame idx: its own slice, rendered in
\* self.bounds_img.
TaskOf(idx) == <<idx, "raster", idx, "edge">>

\* C14: a turn of the loop of a raster dispatch given a range inside the
\* cache submits the task of the index it examines when the entry is absent
\* and nothing when it is present, and goes on to the next index; a task that
\* ends changes no cache slot but the one of its own index.
C14_ExactDispatch ==
    [][/\ (InsideDispatch /\ disp[4] < disp[2] /\ disp' # disp) =>
              LET idx == disp[1] + disp[4]
              IN  /\ disp' # <<>>
                  /\ disp'[4] = disp[4] + 1
                  /\ lastEnd' = "none"
                  /\ tasks' = IF cache[idx] = Absent
                              THEN tasks \cup {TaskOf(idx)}
                              ELSE tasks
       /\ \A t \in tasks \ tasks' :
              \A s \in Slots \ {t[1]} : cache'[s] = cache[s]]_vars

\* C14's case: a raster dispatch inside the cache is through its range, with
\* the task of one index in flight and a present index it has skipped.
C14_Witness ==
    /\ InsideDispatch
    /\ disp[4] = disp[2]
    /\ \E a \in disp[1]..(disp[1] + disp[2] - 1), b \in disp[1]..(disp[1] + disp[2] - 1) :
           /\ TaskOf(a) \in tasks
           /\ cache[a] = Absent
           /\ cache[b] # Absent
           /\ b \notin done
           /\ TaskOf(b) \notin tasks

\* C15 (as claimed): when the body of WindLayer.buffer_frames, given a range
\* inside the cache, ends, it has returned and every index of the range that
\* is still absent has its task in flight, for 'geojson' and for 'quiver'.
C15_WindDispatch ==
    [][(/\ kind \in {"geojson", "quiver"}
        /\ disp # <<>>
        /\ 0 <= disp[1]
        /\ disp[1] + disp[2] <= NumFrames
        /\ disp' = <<>>) =>
           /\ lastEnd' = "returned"
           /\ \A idx \in disp[1]..(disp[1] + disp[2] - 1) :
                  cache'[idx] # Absent \/ (\E t \in tasks' : t[1] = idx)]_vars

\* C16 (as claimed): the body of RasterLayer.buffer_frames never ends in an
\* exception, whatever range the constructor or update_frame gave it: it
\* examines no index outside the cache and returns.
C16_StaysInside ==
    kind = "raster" =>
        /\ lastEnd \in {"none", "returned"}
        /\ disp # <<>> => (disp[4] < disp[2] => ValidIndex(disp[1] + disp[4]))

\* C17 (as claimed): the artifact a present entry holds is the result of one
\* render request per frame, the one a synchronous miss on the frame makes,
\* whether the constructor, update_frame or a prefetch callback stored it.
C17_PathIndependent ==
    \A s \in Slots : cache[s] # Absent => cache[s] = MissFrame(kind, s)

====
